---- MODULE Spec2Model ----
(***************************************************************************)
(* Deployment-block locator of wagmi-extended                              *)
(* (fetch-functions/common/fetchDeploymentBlockX.ts).                      *)
(*                                                                         *)
(*   SearchSpec : one run of findDeploymentBlockRpcX against a chain whose *)
(*                code history, head and floor are drawn at Init.          *)
(*   Spec       : fetchDeploymentBlockX calls over the in-memory query     *)
(*                cache and localStorage, each search advancing one        *)
(*                oracle response at a time.                               *)
(*   RepeatSpec : the search called again with the same arguments.         *)
(*   KeySpec    : the localStorage key over tuples of its parameters.      *)
(*   TxSpec     : onMutate / onSettled of useHandleTransactionMutationX    *)
(*                (hooks/mutations/useHandleTransactionMutationX.ts).      *)
(***************************************************************************)
EXTENDS Integers, Sequences, FiniteSets, TLC

VARIABLES
    head,                   \* current chain head (what getBlockNumber answers)
    code,                   \* code[a][b]: bytecode present at address a in block b
    rpc,                    \* SearchSpec: the running findDeploymentBlockRpcX
    canUseBrowserStorage,   \* window.localStorage exists
    storageFault,           \* which localStorage method throws, if any
    storage,                \* window.localStorage: the items set, key -> text
    queries,                \* QueryClient cache: query key -> query state
    calls,                  \* fetchDeploymentBlockX invocations, in call order
    tx                      \* TxSpec: the transaction of useHandleTransactionMutationX

vars ==
    <<head, code, rpc, canUseBrowserStorage, storageFault, storage, queries,
      calls, tx>>

----------------------------------------------------------------------------
(* Bounds *)

MaxBlock == 7               \* blocks are 0..MaxBlock
MaxCalls == 2               \* fetchDeploymentBlockX invocations per behaviour

Blocks == 0..MaxBlock

----------------------------------------------------------------------------
(* Addresses are texts (sequences of characters) *)

AddrUpper == <<"0", "x", "A">>
AddrLower == <<"0", "x", "a">>

LowerChar(c) == CASE c = "A" -> "a" [] c = "B" -> "b" [] OTHER -> c

\* variant: the case of the address is kept
KeepsCase(s) == s

\* String.prototype.toLowerCase
ToLowerCase(s) == [i \in 1..Len(s) |-> LowerChar(s[i])]

\* the well-formed addresses
Addresses == {AddrUpper, AddrLower}

\* text that is no address: not 0x-prefixed
AddrMalformed == <<"a">>

EmptyAddress == <<>>

\* what a caller can pass as address (the Address type is erased at run time)
AddressTexts == Addresses \cup {AddrMalformed, EmptyAddress}

\* the accounts the node answers eth_getCode for
Contracts == {ToLowerCase(a) : a \in Addresses}

----------------------------------------------------------------------------
(* Decimal text: bigint.toString() and BigInt(text) *)

Digits == <<"0", "1", "2", "3", "4", "5", "6", "7", "8", "9">>

IsDigit(c) == \E d \in 1..10 : Digits[d] = c

DigitValue(c) == (CHOOSE d \in 1..10 : Digits[d] = c) - 1

RECURSIVE toString(_)
toString(n) ==
    IF n < 10 THEN <<Digits[n + 1]>>
    ELSE toString(n \div 10) \o <<Digits[(n % 10) + 1]>>

NoBlock == -1               \* undefined

RECURSIVE DecimalValue(_)
DecimalValue(t) ==
    IF Len(t) = 0 THEN 0
    ELSE 10 * DecimalValue(SubSeq(t, 1, Len(t) - 1)) + DigitValue(t[Len(t)])

\* variant: text that BigInt cannot parse is read as block 0
ParseBigIntLenient(raw) ==
    IF Len(raw) = 0 THEN NoBlock
    ELSE IF \A i \in 1..Len(raw) : IsDigit(raw[i]) THEN DecimalValue(raw)
    ELSE 0

\* raw ? BigInt(raw) : undefined, a SyntaxError being caught by the caller
ParseBigInt(raw) ==
    IF Len(raw) = 0 THEN NoBlock
    ELSE IF \A i \in 1..Len(raw) : IsDigit(raw[i]) THEN DecimalValue(raw)
    ELSE NoBlock

----------------------------------------------------------------------------
(* Keys *)

ClientChainId == 1          \* getPublicClient(wagmiConfig).chain.id
OtherChainId == 2           \* a chain id passed as options.chainId
NoChainId == 0              \* options.chainId omitted

ChainIds == {ClientChainId, OtherChainId}

Floors == {0, 2}            \* floors passed to fetchDeploymentBlockX

deploymentBlockKey(chainId, address, floor) ==
    <<"deploymentBlock", chainId, ToLowerCase(address), floor>>

\* variant: the parts of the key are joined without the colons
lsKeyWithoutColons(chainId, address, floor) ==
    <<"wagmi-extended", ":", "deploymentBlock", ":">> \o toString(chainId)
        \o ToLowerCase(address) \o toString(floor)

\* `wagmi-extended:deploymentBlock:${chainId}:${address.toLowerCase()}:${floor}`
lsKeyForDeploymentBlock(chainId, address, floor) ==
    <<"wagmi-extended", ":", "deploymentBlock", ":">> \o toString(chainId)
        \o <<":">> \o ToLowerCase(address) \o <<":">> \o toString(floor)

QueryKeys ==
    {deploymentBlockKey(c, a, f) :
        c \in ChainIds, a \in AddressTexts, f \in Floors}

----------------------------------------------------------------------------
(* localStorage *)

\* variant: the value found in localStorage is ignored
ReadNothingFromLS(chainId, address, floor) == NoBlock

readDeploymentBlockFromLS(chainId, address, floor) ==
    LET key == lsKeyForDeploymentBlock(chainId, address, floor) IN
    IF ~canUseBrowserStorage THEN NoBlock
    ELSE IF storageFault = "getItem" THEN NoBlock
    ELSE IF key \notin DOMAIN storage THEN NoBlock
    ELSE ParseBigInt(storage[key])

\* variant: nothing is ever written to localStorage
WriteNothingToLS(chainId, address, floor, value) == storage

\* the storage after writeDeploymentBlockToLS
writeDeploymentBlockToLS(chainId, address, floor, value) ==
    LET key == lsKeyForDeploymentBlock(chainId, address, floor) IN
    IF ~canUseBrowserStorage THEN storage
    ELSE IF storageFault = "setItem" THEN storage
    ELSE [k \in DOMAIN storage \cup {key} |->
             IF k = key THEN toString(value) ELSE storage[k]]

----------------------------------------------------------------------------
(* The QueryClient cache: per query key the cached data and, while a fetch *)
(* is running, the call whose queryFn it executes.                         *)

NoQuery == [data |-> NoBlock, fetching |-> 0]

\* variant: staleTime 0, cached data is always refetched
AlwaysStale(q) == TRUE

\* query.isStaleByTime(staleTime) with metaDataQuery's staleTime of
\* Number.POSITIVE_INFINITY: only a query without data is stale
IsStale(q) == q.data = NoBlock

\* variant: a running fetch is not noticed
NeverFetching(q) == FALSE

\* fetchQuery on a stale query whose fetch is running returns that fetch's
\* promise instead of running the queryFn again
IsFetching(q) == q.fetching # 0

\* variant: data already cached is not replaced
setQueryDataKeepsCached(qs, key, data) ==
    IF qs[key].data # NoBlock THEN qs ELSE [qs EXCEPT ![key].data = data]

\* queryClient.setQueryData(key, data)
setQueryData(qs, key, data) == [qs EXCEPT ![key].data = data]

\* variant: options.disableLocalStorage is ignored
IgnoresOptOut(disableLocalStorage) == TRUE

\* if (!disableLocalStorage)
UsesLocalStorage(disableLocalStorage) == ~disableLocalStorage

----------------------------------------------------------------------------
(* The oracle: client.getBlockNumber and client.getCode *)

Undefined == "undefined"

\* client.getCode({address, blockNumber}) on an existing block
GetCode(address, blockNumber) ==
    IF code[ToLowerCase(address)][blockNumber] THEN "0x60" ELSE Undefined

\* hasCodeAtX's verdict on what getCode answered
HasCode(bytes) == bytes # Undefined /\ bytes # "0x"

----------------------------------------------------------------------------
(* findDeploymentBlockRpcX, one await at a time.  A run is a record; pc    *)
(* names the oracle call the run is waiting for, log lists every oracle    *)
(* call issued so far.                                                     *)

Idle ==
    [address |-> <<>>, floor |-> 0, pc |-> "idle", latest |-> 0,
     lo |-> 0, hi |-> 0, step |-> 0, probe |-> 0, result |-> 0,
     error |-> "none", log |-> <<>>]

\* entry: client.getBlockNumber() is issued
StartSearch(address, floor) ==
    [Idle EXCEPT !.address = address, !.floor = floor,
                 !.pc = "getBlockNumber",
                 !.log = <<[op |-> "getBlockNumber", block |-> 0,
                            phase |-> "getBlockNumber"]>>]

\* hasCodeAtX(address, b) is issued in the given phase
Probe(s, phase, b) ==
    [s EXCEPT !.pc = phase, !.probe = b,
              !.log = Append(@, [op |-> "getCode", block |-> b,
                                 phase |-> phase])]

Return(s, b) == [s EXCEPT !.pc = "done", !.result = b]

Throw(s, e) == [s EXCEPT !.pc = "failed", !.error = e]

\* variant: the loop stops one block early (lo + 2n < hi)
BinarySearchStopsEarly(s) ==
    IF s.lo + 2 < s.hi
    THEN Probe(s, "binary", s.lo + ((s.hi - s.lo) \div 2))
    ELSE Return(s, s.hi)

\* while (lo + 1n < hi) { mid = lo + (hi - lo) / 2n; ... } return hi
BinarySearch(s) ==
    IF s.lo + 1 < s.hi
    THEN Probe(s, "binary", s.lo + ((s.hi - s.lo) \div 2))
    ELSE Return(s, s.hi)

\* variant: the descent may probe lo itself (hi - step >= lo)
DescentReachesLo(s) ==
    IF s.hi - s.step >= s.lo
    THEN Probe(s, "descent", s.hi - s.step)
    ELSE BinarySearch(s)

\* while (hi - step > lo) { probe = hi - step; ... }
Descent(s) ==
    IF s.hi - s.step > s.lo
    THEN Probe(s, "descent", s.hi - s.step)
    ELSE BinarySearch(s)

\* variant: the lower bound starts at block 0 whatever the floor
EnterDescentFromZero(s) ==
    Descent([s EXCEPT !.lo = 0, !.hi = s.latest, !.step = 1])

\* let lo = floor; let hi = latest; let step = 1n
EnterDescent(s) ==
    Descent([s EXCEPT !.lo = s.floor, !.hi = s.latest, !.step = 1])

\* latest = await client.getBlockNumber(); then the head probe is issued
OnBlockNumber(s, n) == Probe([s EXCEPT !.latest = n], "head", n)

\* variant: a head without code does not stop the search
OnCodeSkipsHeadCheck(s, present) ==
    CASE s.pc = "head" ->
            IF s.floor > 0 THEN Probe(s, "floor", s.floor)
            ELSE EnterDescent(s)
      [] s.pc = "floor" ->
            IF present THEN Return(s, s.floor) ELSE EnterDescent(s)
      [] s.pc = "descent" ->
            IF present
            THEN Descent([s EXCEPT !.hi = s.probe, !.step = 2 * s.step])
            ELSE BinarySearch([s EXCEPT !.lo = s.probe])
      [] s.pc = "binary" ->
            IF present
            THEN BinarySearch([s EXCEPT !.hi = s.probe])
            ELSE BinarySearch([s EXCEPT !.lo = s.probe])

\* variant: code found at the floor does not end the search
OnCodeIgnoresFloorAnswer(s, present) ==
    CASE s.pc = "head" ->
            IF ~present THEN Throw(s, "NotDeployed")
            ELSE IF s.floor > 0 THEN Probe(s, "floor", s.floor)
            ELSE EnterDescent(s)
      [] s.pc = "floor" -> EnterDescent(s)
      [] s.pc = "descent" ->
            IF present
            THEN Descent([s EXCEPT !.hi = s.probe, !.step = 2 * s.step])
            ELSE BinarySearch([s EXCEPT !.lo = s.probe])
      [] s.pc = "binary" ->
            IF present
            THEN BinarySearch([s EXCEPT !.hi = s.probe])
            ELSE BinarySearch([s EXCEPT !.lo = s.probe])

\* variant: the binary search moves the wrong bound
OnCodeSwapsBounds(s, present) ==
    CASE s.pc = "head" ->
            IF ~present THEN Throw(s, "NotDeployed")
            ELSE IF s.floor > 0 THEN Probe(s, "floor", s.floor)
            ELSE EnterDescent(s)
      [] s.pc = "floor" ->
            IF present THEN Return(s, s.floor) ELSE EnterDescent(s)
      [] s.pc = "descent" ->
            IF present
            THEN Descent([s EXCEPT !.hi = s.probe, !.step = 2 * s.step])
            ELSE BinarySearch([s EXCEPT !.lo = s.probe])
      [] s.pc = "binary" ->
            IF present
            THEN BinarySearch([s EXCEPT !.lo = s.probe])
            ELSE BinarySearch([s EXCEPT !.hi = s.probe])

\* variant: the descent step is not doubled
OnCodeLinearDescent(s, present) ==
    CASE s.pc = "head" ->
            IF ~present THEN Throw(s, "NotDeployed")
            ELSE IF s.floor > 0 THEN Probe(s, "floor", s.floor)
            ELSE EnterDescent(s)
      [] s.pc = "floor" ->
            IF present THEN Return(s, s.floor) ELSE EnterDescent(s)
      [] s.pc = "descent" ->
            IF present
            THEN Descent([s EXCEPT !.hi = s.probe])
            ELSE BinarySearch([s EXCEPT !.lo = s.probe])
      [] s.pc = "binary" ->
            IF present
            THEN BinarySearch([s EXCEPT !.hi = s.probe])
            ELSE BinarySearch([s EXCEPT !.lo = s.probe])

\* variant: a binary-search hit does not move hi
OnCodeKeepsUpperBound(s, present) ==
    CASE s.pc = "head" ->
            IF ~present THEN Throw(s, "NotDeployed")
            ELSE IF s.floor > 0 THEN Probe(s, "floor", s.floor)
            ELSE EnterDescent(s)
      [] s.pc = "floor" ->
            IF present THEN Return(s, s.floor) ELSE EnterDescent(s)
      [] s.pc = "descent" ->
            IF present
            THEN Descent([s EXCEPT !.hi = s.probe, !.step = 2 * s.step])
            ELSE BinarySearch([s EXCEPT !.lo = s.probe])
      [] s.pc = "binary" ->
            IF present
            THEN BinarySearch(s)
            ELSE BinarySearch([s EXCEPT !.lo = s.probe])

\* continuation after an answered hasCodeAtX
OnCode(s, present) ==
    CASE s.pc = "head" ->
            IF ~present THEN Throw(s, "NotDeployed")
            ELSE IF s.floor > 0 THEN Probe(s, "floor", s.floor)
            ELSE EnterDescent(s)
      [] s.pc = "floor" ->
            IF present THEN Return(s, s.floor) ELSE EnterDescent(s)
      [] s.pc = "descent" ->
            IF present
            THEN Descent([s EXCEPT !.hi = s.probe, !.step = 2 * s.step])
            ELSE BinarySearch([s EXCEPT !.lo = s.probe])
      [] s.pc = "binary" ->
            IF present
            THEN BinarySearch([s EXCEPT !.hi = s.probe])
            ELSE BinarySearch([s EXCEPT !.lo = s.probe])

\* variant: the rejected call is issued once more
OnOracleErrorRetries(s) == [s EXCEPT !.log = Append(@, s.log[Len(s.log)])]

\* an oracle call rejects: the await throws out of the search
OnOracleError(s) == Throw(s, "OracleError")

Probing(s) == s.pc \in {"head", "floor", "descent", "binary"}

Running(s) == s.pc = "getBlockNumber" \/ Probing(s)

----------------------------------------------------------------------------
(* useHandleTransactionMutationX: the settings, the errors it meets, and   *)
(* the parts of onSettled between two awaits.  A transaction is a record;  *)
(* pc names the await onSettled is suspended at, events lists what it has  *)
(* called so far.                                                          *)

\* WriteExtendedAsyncParams, callbacks given; for the two invalidation
\* settings TRUE means the setting is given
TxSettings ==
    [disableWaitingForReceipt : BOOLEAN,
     invalidatePredicate : BOOLEAN,
     queriesToInvalidate : BOOLEAN,
     disableAutomaticInvalidation : BOOLEAN,
     onSuccessThrows : BOOLEAN,
     onErrorThrows : BOOLEAN]

DefaultSettings ==
    [disableWaitingForReceipt |-> FALSE, invalidatePredicate |-> FALSE,
     queriesToInvalidate |-> FALSE, disableAutomaticInvalidation |-> FALSE,
     onSuccessThrows |-> FALSE, onErrorThrows |-> FALSE]

\* errors, as far as getParsedErrorX reads them
NoError == [shortMessage |-> "", message |-> ""]

SubmitError ==
    [shortMessage |-> "User rejected the request.",
     message |-> "User rejected the request. Version: viem"]

RevertedError == [shortMessage |-> "", message |-> "Execution reverted."]

ReceiptTimeoutError ==
    [shortMessage |-> "Timed out while waiting for transaction.",
     message |-> "Timed out while waiting for transaction. Version: viem"]

CallbackError == [shortMessage |-> "", message |-> "onSuccess failed"]

\* error.shortMessage || error.details || error.message || defaultMessage
getParsedErrorX(error) ==
    IF error.shortMessage # "" THEN error.shortMessage
    ELSE IF error.message # "" THEN error.message
    ELSE "An unknown error occurred. Please contact support."

TxHash == "0xhash"

\* the queries in the QueryClient's cache and the meta they were created with
CachedQueries == {"deploymentBlock", "balanceOf"}

MetaOf(q) ==
    IF q = "deploymentBlock" THEN [queryType |-> "metaDataQuery"]
    ELSE [queryType |-> "semiSensitiveQuery"]

\* query.meta?.category
Category(meta) ==
    IF "category" \in DOMAIN meta THEN meta.category ELSE Undefined

\* what settings.invalidatePredicate and settings.queriesToInvalidate name
PredicateMatches == {"balanceOf"}

KeysToInvalidate == {"balanceOf"}

NoTx ==
    [pc |-> "idle", settings |-> DefaultSettings, error |-> NoError,
     receipt |-> "none", isPending |-> FALSE, errorMessage |-> Undefined,
     invalidated |-> {}, events |-> <<>>, result |-> "none",
     thrown |-> FALSE]

Emit(t, e) == [t EXCEPT !.events = Append(@, e)]

\* finally { setIsPending(false); settings.onSettled(); await onSettledAsync }
Finally(t) ==
    [Emit(Emit(t, "onSettled"), "onSettledAsync") EXCEPT
        !.isPending = FALSE, !.pc = "onSettledAsync"]

\* variant: the catch block leaves the error message alone
CatchSilently(t, error) ==
    LET t1 == [Emit(t, "onError") EXCEPT !.error = error]
    IN  IF t.settings.onErrorThrows
        THEN Finally([t1 EXCEPT !.thrown = TRUE])
        ELSE [Emit(t1, "onErrorAsync") EXCEPT !.pc = "onErrorAsync"]

\* catch (error) { setErrorMessage(parsed); onError(error); await onErrorAsync }
\* an onError callback that throws leaves the catch block for the finally
\* block, and its exception is rethrown after it
Catch(t, error) ==
    LET t1 == [Emit(t, "onError") EXCEPT
                  !.error = error, !.errorMessage = getParsedErrorX(error)]
    IN  IF t.settings.onErrorThrows
        THEN Finally([t1 EXCEPT !.thrown = TRUE])
        ELSE [Emit(t1, "onErrorAsync") EXCEPT !.pc = "onErrorAsync"]

\* 3. invalidate queries: by predicate, by key list, or the fallback
InvalidateQueries(t) ==
    LET set == t.settings
        fallback == /\ ~set.disableAutomaticInvalidation
                    /\ ~set.invalidatePredicate
                    /\ ~set.queriesToInvalidate
        t1 == IF set.invalidatePredicate
              THEN [Emit(t, "invalidatePredicate") EXCEPT
                       !.invalidated = @ \cup PredicateMatches]
              ELSE t
        t2 == IF set.queriesToInvalidate
              THEN [Emit(t1, "invalidateMany") EXCEPT
                       !.invalidated = @ \cup KeysToInvalidate]
              ELSE t1
    IN  IF fallback
        THEN [Emit(t2, "invalidateFallback") EXCEPT
                 !.invalidated = @ \cup
                     {q \in CachedQueries :
                         Category(MetaOf(q)) # "metadata"}]
        ELSE t2

\* 4. settings.onSuccess(txHash), then await settings.onSuccessAsync(txHash)
OnSuccess(t) ==
    IF t.settings.onSuccessThrows
    THEN Catch(Emit(t, "onSuccess"), CallbackError)
    ELSE [Emit(Emit(t, "onSuccess"), "onSuccessAsync") EXCEPT
             !.pc = "onSuccessAsync"]

\* variant: any receipt counts as success
AnyReceiptOk(status) == TRUE

\* neither "reverted" nor anything else that is not "success"
ReceiptOk(status) == status = "success"

----------------------------------------------------------------------------
(* SearchSpec: a single search *)

Histories == [Blocks -> BOOLEAN]

NoCode == [b \in Blocks |-> FALSE]

SearchInit ==
    /\ head \in Blocks
    /\ \E h \in Histories :
          code = [a \in Contracts |-> IF a = AddrLower THEN h ELSE NoCode]
    /\ \E floor \in Blocks : rpc = StartSearch(AddrUpper, floor)
    /\ canUseBrowserStorage = TRUE
    /\ storageFault = "none"
    /\ storage = <<>>
    /\ queries = [k \in QueryKeys |-> NoQuery]
    /\ calls = <<>>
    /\ tx = NoTx

\* a new block is mined
Tick ==
    /\ head < MaxBlock
    /\ head' = head + 1
    /\ UNCHANGED <<code, rpc, canUseBrowserStorage, storageFault, storage, queries,
                   calls, tx>>

RpcGetBlockNumber ==
    /\ rpc.pc = "getBlockNumber"
    /\ rpc' = OnBlockNumber(rpc, head)
    /\ UNCHANGED <<head, code, canUseBrowserStorage, storageFault, storage,
                   queries, calls, tx>>

RpcGetCode ==
    /\ Probing(rpc)
    /\ rpc.probe \in 0..head
    /\ rpc' = OnCode(rpc, HasCode(GetCode(rpc.address, rpc.probe)))
    /\ UNCHANGED <<head, code, canUseBrowserStorage, storageFault, storage,
                   queries, calls, tx>>

\* transport failure, or a probe of a block the node does not have yet
RpcOracleError ==
    /\ Running(rpc)
    /\ rpc' = OnOracleError(rpc)
    /\ UNCHANGED <<head, code, canUseBrowserStorage, storageFault, storage,
                   queries, calls, tx>>

SearchNext == Tick \/ RpcGetBlockNumber \/ RpcGetCode \/ RpcOracleError

SearchSpec == SearchInit /\ [][SearchNext]_vars

\* the oracle answers every call it is sent (with a value or a rejection)
OracleAnswers == RpcGetBlockNumber \/ RpcGetCode \/ RpcOracleError

FairSearchSpec == SearchSpec /\ WF_vars(OracleAnswers)

----------------------------------------------------------------------------
(* Spec: fetchDeploymentBlockX over the query cache and localStorage *)

\* (address, floor, options.chainId, options.disableLocalStorage)
CallArgs ==
    ({AddrLower} \X {0} \X {NoChainId} \X BOOLEAN)
        \cup {<<AddrUpper, 0, NoChainId, FALSE>>,
              <<AddrLower, 2, NoChainId, FALSE>>,
              <<AddrLower, 0, OtherChainId, FALSE>>,
              <<EmptyAddress, 0, NoChainId, FALSE>>,
              <<AddrMalformed, 0, NoChainId, FALSE>>}

\* a fetchDeploymentBlockX invocation as it is entered
NewCall(address, floor, chainId, disableLocalStorage) ==
    [address |-> address, floor |-> floor, chainId |-> chainId,
     disableLocalStorage |-> disableLocalStorage,
     key |-> deploymentBlockKey(chainId, address, floor),
     status |-> "pending", value |-> NoBlock, error |-> "none",
     source |-> "none", awaits |-> 0, run |-> Idle,
     lsReads |-> <<>>, lsWrites |-> <<>>, live |-> TRUE]

Resolved(c, value, source) ==
    [c EXCEPT !.status = "returned", !.value = value, !.source = source]

Rejected(c, error) == [c EXCEPT !.status = "threw", !.error = error]

\* code present from block D on
DeployedFrom(D) == [b \in Blocks |-> b >= D]

SpecHistories == {NoCode, DeployedFrom(1), DeployedFrom(MaxBlock - 1)}

\* one item left in localStorage by an earlier session
Stored(chainId, text) ==
    [k \in {lsKeyForDeploymentBlock(chainId, AddrLower, 0)} |-> text]

Garbage == <<"x">>

\* the browser (or server) the process starts in
Environments ==
    {[canUse |-> TRUE, fault |-> "none", items |-> <<>>],
     [canUse |-> TRUE, fault |-> "none",
      items |-> Stored(ClientChainId, toString(4))],
     [canUse |-> TRUE, fault |-> "none",
      items |-> Stored(OtherChainId, toString(4))],
     [canUse |-> TRUE, fault |-> "none",
      items |-> Stored(ClientChainId, Garbage)],
     [canUse |-> TRUE, fault |-> "getItem",
      items |-> Stored(ClientChainId, toString(4))],
     [canUse |-> TRUE, fault |-> "setItem", items |-> <<>>],
     [canUse |-> FALSE, fault |-> "none", items |-> <<>>]}

Init ==
    /\ head = MaxBlock - 1
    /\ code \in [Contracts -> SpecHistories]
    /\ rpc = Idle
    /\ \E e \in Environments :
          /\ canUseBrowserStorage = e.canUse
          /\ storageFault = e.fault
          /\ storage = e.items
    /\ queries = [k \in QueryKeys |-> NoQuery]
    /\ calls = <<>>
    /\ tx = NoTx

\* variant: the address is not checked
AddressNeverMissing(address) == FALSE

\* if (!address) throw new Error("Address is required")
AddressMissing(address) == address = EmptyAddress

\* fetchDeploymentBlockX up to its first await: the argument checks, the
\* seeding of the query cache from localStorage, queryClient.fetchQuery and,
\* when the query has no data and no running fetch, the queryFn up to the
\* getBlockNumber request of findDeploymentBlockRpcX.
fetchDeploymentBlockX(address, floor, optChainId, disableLocalStorage) ==
    /\ Len(calls) < MaxCalls
    /\ LET id == Len(calls) + 1
           chainId == IF optChainId # NoChainId THEN optChainId
                      ELSE ClientChainId
           c == NewCall(address, floor, chainId, disableLocalStorage)
           useLS == UsesLocalStorage(disableLocalStorage)
           fromLS == IF useLS
                     THEN readDeploymentBlockFromLS(chainId, address, floor)
                     ELSE NoBlock
           seedRead == IF useLS
                       THEN <<lsKeyForDeploymentBlock(chainId, address, floor)>>
                       ELSE <<>>
           \* queryClient.setQueryData(key, fromLS)
           seeded == IF fromLS # NoBlock
                     THEN setQueryData(queries, c.key, fromLS)
                     ELSE queries
           \* queryFn: readDeploymentBlockFromLS(cid, address, floor)
           fnLS == IF useLS
                   THEN readDeploymentBlockFromLS(ClientChainId, address, floor)
                   ELSE NoBlock
           fnRead == IF useLS
                     THEN <<lsKeyForDeploymentBlock(ClientChainId, address,
                                                    floor)>>
                     ELSE <<>>
       IN  IF AddressMissing(address)
           THEN /\ calls' = Append(calls, Rejected(c, "AddressRequired"))
                /\ UNCHANGED queries
           ELSE IF ~IsStale(seeded[c.key])
           THEN \* fetchQuery: data that never goes stale is returned
                /\ calls' = Append(calls,
                      Resolved([c EXCEPT !.lsReads = seedRead],
                               seeded[c.key].data,
                               IF fromLS # NoBlock THEN "seed" ELSE "memory"))
                /\ queries' = seeded
           ELSE IF IsFetching(seeded[c.key])
           THEN \* fetchQuery: the promise of the running fetch is returned
                /\ calls' = Append(calls,
                      [c EXCEPT !.lsReads = seedRead, !.source = "join",
                                !.awaits = seeded[c.key].fetching])
                /\ queries' = seeded
           ELSE IF fnLS # NoBlock
           THEN \* queryFn returns what it found in localStorage
                /\ calls' = Append(calls,
                      Resolved([c EXCEPT !.lsReads = seedRead \o fnRead],
                               fnLS, "store"))
                /\ queries' = [seeded EXCEPT ![c.key].data = fnLS]
           ELSE \* queryFn calls findDeploymentBlockRpcX
                /\ calls' = Append(calls,
                      [c EXCEPT !.lsReads = seedRead \o fnRead,
                                !.source = "search", !.awaits = id,
                                !.run = StartSearch(address, floor)])
                /\ queries' = [seeded EXCEPT ![c.key].fetching = id]
    /\ UNCHANGED <<head, code, rpc, canUseBrowserStorage, storageFault,
                   storage, tx>>

\* variant: a failed search leaves the upper bound it had reached as data
DataAfterKeepsBound(q, run) ==
    IF run.pc = "done" THEN run.result
    ELSE IF run.hi > 0 THEN run.hi ELSE q.data

\* the query's data once its fetch has ended: the queryFn's result on
\* success, the data it had on failure
DataAfter(q, run) == IF run.pc = "done" THEN run.result ELSE q.data

\* the queryFn of call i has finished: the result is persisted unless the
\* call disabled localStorage, the query takes the data, and every caller
\* awaiting this fetch gets the outcome
Settle(i, run) ==
    LET c == calls[i]
        ok == run.pc = "done"
        persist == ok /\ UsesLocalStorage(c.disableLocalStorage)
        written == IF persist
                   THEN <<lsKeyForDeploymentBlock(ClientChainId, c.address,
                                                  c.floor)>>
                   ELSE <<>>
        owner == [c EXCEPT !.run = run, !.lsWrites = written]
        outcome(w) == IF ok THEN Resolved(w, run.result, w.source)
                      ELSE Rejected(w, run.error)
    IN  /\ calls' = [j \in DOMAIN calls |->
                        IF j = i THEN outcome(owner)
                        ELSE IF calls[j].status = "pending"
                                /\ calls[j].awaits = i
                        THEN outcome(calls[j])
                        ELSE calls[j]]
        /\ queries' = [queries EXCEPT
                          ![c.key] = [data |-> DataAfter(@, run),
                                      fetching |-> 0]]
        /\ storage' = IF persist
                      THEN writeDeploymentBlockToLS(ClientChainId, c.address,
                                                    c.floor, run.result)
                      ELSE storage

\* the search of call i moves to its next await, or finishes
Advance(i, run) ==
    IF run.pc \in {"done", "failed"}
    THEN Settle(i, run)
    ELSE /\ calls' = [calls EXCEPT ![i].run = run]
         /\ UNCHANGED <<queries, storage>>

QueryGetBlockNumber(i) ==
    /\ calls[i].run.pc = "getBlockNumber"
    /\ Advance(i, OnBlockNumber(calls[i].run, head))
    /\ UNCHANGED <<head, code, rpc, canUseBrowserStorage, storageFault, tx>>

\* the node answers for an existing block and for text that is an address
QueryGetCode(i) ==
    /\ Probing(calls[i].run)
    /\ calls[i].run.probe \in 0..head
    /\ ToLowerCase(calls[i].run.address) \in Contracts
    /\ Advance(i, OnCode(calls[i].run,
                         HasCode(GetCode(calls[i].run.address,
                                         calls[i].run.probe))))
    /\ UNCHANGED <<head, code, rpc, canUseBrowserStorage, storageFault, tx>>

QueryOracleError(i) ==
    /\ Running(calls[i].run)
    /\ Advance(i, OnOracleError(calls[i].run))
    /\ UNCHANGED <<head, code, rpc, canUseBrowserStorage, storageFault, tx>>

\* the process restarts: the query cache is lost, localStorage survives
Restart ==
    /\ \A i \in DOMAIN calls : calls[i].status # "pending"
    /\ \E k \in QueryKeys : queries[k] # NoQuery
    /\ queries' = [k \in QueryKeys |-> NoQuery]
    /\ calls' = [i \in DOMAIN calls |-> [calls[i] EXCEPT !.live = FALSE]]
    /\ UNCHANGED <<head, code, rpc, canUseBrowserStorage, storageFault,
                   storage, tx>>

Next ==
    \/ \E a \in CallArgs : fetchDeploymentBlockX(a[1], a[2], a[3], a[4])
    \/ \E i \in DOMAIN calls : QueryGetBlockNumber(i)
    \/ \E i \in DOMAIN calls : QueryGetCode(i)
    \/ \E i \in DOMAIN calls : QueryOracleError(i)
    \/ Restart
    \/ Tick

Spec == Init /\ [][Next]_vars

----------------------------------------------------------------------------
(* TxSpec: one transaction settled through useHandleTransactionMutationX *)

TxInit ==
    /\ head = 0
    /\ code = [a \in Contracts |-> NoCode]
    /\ rpc = Idle
    /\ canUseBrowserStorage = TRUE
    /\ storageFault = "none"
    /\ storage = <<>>
    /\ queries = [k \in QueryKeys |-> NoQuery]
    /\ calls = <<>>
    /\ \E set \in TxSettings : tx = [NoTx EXCEPT !.settings = set]

TxStep(t) ==
    /\ tx' = t
    /\ UNCHANGED <<head, code, rpc, canUseBrowserStorage, storageFault,
                   storage, queries, calls>>

\* onMutate: setIsPending(true); setErrorMessage(undefined)
onMutate ==
    /\ tx.pc = "idle"
    /\ TxStep([tx EXCEPT !.pc = "mutating", !.isPending = TRUE,
                         !.errorMessage = Undefined])

\* onSettled(txHash, error, args) up to its first await
onSettled(error) ==
    /\ tx.pc = "mutating"
    /\ TxStep(IF error # NoError THEN Catch(tx, error)
              ELSE IF ~tx.settings.disableWaitingForReceipt
              THEN [Emit(tx, "waitForTransactionReceipt") EXCEPT
                       !.pc = "waitForTransactionReceipt"]
              ELSE OnSuccess(InvalidateQueries(tx)))

\* waitForTransactionReceipt resolves with a receipt
OnReceipt(status) ==
    /\ tx.pc = "waitForTransactionReceipt"
    /\ LET t == [Emit(tx, "receipt") EXCEPT !.receipt = status]
       IN  TxStep(IF ReceiptOk(status) THEN OnSuccess(InvalidateQueries(t))
                  ELSE Catch(t, RevertedError))

\* waitForTransactionReceipt rejects
OnReceiptError ==
    /\ tx.pc = "waitForTransactionReceipt"
    /\ TxStep(Catch(tx, ReceiptTimeoutError))

\* onSuccessAsync has resolved: return txHash, through the finally block
OnSuccessAsyncDone ==
    /\ tx.pc = "onSuccessAsync"
    /\ TxStep(Finally([Emit(tx, "return") EXCEPT !.result = TxHash]))

\* onErrorAsync has resolved: the finally block
OnErrorAsyncDone ==
    /\ tx.pc = "onErrorAsync"
    /\ TxStep(Finally(tx))

\* onSettledAsync has resolved: onSettled returns txHash or undefined, or
\* rejects with what the onError callback threw
OnSettledAsyncDone ==
    /\ tx.pc = "onSettledAsync"
    /\ TxStep([tx EXCEPT !.pc = "done",
                         !.result = IF tx.thrown THEN "throws"
                                    ELSE IF @ = "none" THEN Undefined
                                    ELSE @])

TxNext ==
    \/ onMutate
    \/ \E error \in {NoError, SubmitError} : onSettled(error)
    \/ \E status \in {"success", "reverted", Undefined} : OnReceipt(status)
    \/ OnReceiptError
    \/ OnSuccessAsyncDone
    \/ OnErrorAsyncDone
    \/ OnSettledAsyncDone

TxSpec == TxInit /\ [][TxNext]_vars

----------------------------------------------------------------------------
(* RepeatSpec: findDeploymentBlockRpcX is called again with the same       *)
(* address and floor after it has returned, the chain having grown or not; *)
(* calls keeps the runs that returned                                      *)

RpcSearchAgain ==
    /\ rpc.pc = "done"
    /\ Len(calls) < MaxCalls - 1
    /\ calls' = Append(calls, rpc)
    /\ rpc' = StartSearch(rpc.address, rpc.floor)
    /\ UNCHANGED <<head, code, canUseBrowserStorage, storageFault, storage,
                   queries, tx>>

RepeatNext == SearchNext \/ RpcSearchAgain

RepeatSpec == SearchInit /\ [][RepeatNext]_vars

----------------------------------------------------------------------------
(* KeySpec: writeDeploymentBlockToLS applied to (chain id, address, floor)  *)
(* tuples that differ in one component, in letter case, or in where their  *)
(* digits fall                                                             *)

AddrLonger == <<"0", "x", "a", "1">>

KeyTuples == {1, 11} \X {AddrLower, AddrUpper, AddrLonger} \X {0, 1, 10}

KeyInit ==
    /\ head = 0
    /\ code = [a \in Contracts |-> NoCode]
    /\ rpc = Idle
    /\ canUseBrowserStorage = TRUE
    /\ storageFault = "none"
    /\ storage = <<>>
    /\ queries = [k \in QueryKeys |-> NoQuery]
    /\ calls = <<>>
    /\ tx = NoTx

\* the queryFn persists a discovered block for one tuple
WriteToLS(chainId, address, floor, value) ==
    /\ storage' = writeDeploymentBlockToLS(chainId, address, floor, value)
    /\ UNCHANGED <<head, code, rpc, canUseBrowserStorage, storageFault,
                   queries, calls, tx>>

KeyNext == \E t \in KeyTuples : WriteToLS(t[1], t[2], t[3], MaxBlock)

KeySpec == KeyInit /\ [][KeyNext]_vars

----------------------------------------------------------------------------
(* Properties of the search (SearchSpec) *)

\* code presence at the searched address
CodeAt(b) == code[ToLowerCase(rpc.address)][b]

\* code is absent below D and present from D up to block l
DeployedAt(D, l) == \A b \in 0..l : CodeAt(b) <=> b >= D

\* once present, code stays present on f..l
MonotonicBetween(f, l) ==
    \A b, c \in f..l : (b <= c /\ CodeAt(b)) => CodeAt(c)

\* the earliest block of f..l that has code
EarliestCode(f, l) ==
    CHOOSE b \in f..l : CodeAt(b) /\ \A c \in f..(b - 1) : ~CodeAt(c)

PhasesOf(s) == {s.log[i].phase : i \in 1..Len(s.log)}

\* C1: with monotonic code presence (absent below D, present from D to the
\* observed head) and a floor below the head that has no code, the search
\* returns exactly D, the block with code whose predecessor has none.
C1_ReturnsDeploymentBlock ==
    (rpc.pc = "done" /\ rpc.floor < rpc.latest /\ ~CodeAt(rpc.floor)) =>
        \A D \in 0..rpc.latest :
            DeployedAt(D, rpc.latest) =>
                /\ rpc.result = D
                /\ D >= 1
                /\ ~CodeAt(D - 1)
                /\ CodeAt(D)

\* a finished search from floor 0 that needed both the descent and the
\* binary search to find a deployment in the middle of the chain
C1_Witness ==
    /\ rpc.pc = "done"
    /\ rpc.floor = 0
    /\ rpc.latest = MaxBlock
    /\ DeployedAt(3, rpc.latest)
    /\ rpc.result = 3
    /\ {"descent", "binary"} \subseteq PhasesOf(rpc)

\* C2 (as claimed): for floor <= latest and monotonic code presence with
\* code at the head, the returned block is the earliest block at or above
\* floor that has code, block 0 for a genesis contract searched from 0.
C2_ReturnsEarliestAtOrAboveFloor ==
    (rpc.pc = "done" /\ rpc.floor <= rpc.latest) =>
        \A D \in 0..rpc.latest :
            DeployedAt(D, rpc.latest) =>
                rpc.result = EarliestCode(rpc.floor, rpc.latest)

\* C3: without code at the head the search fails as not deployed whatever
\* the floor, after exactly getBlockNumber and one getCode at the head;
\* in every run the head check comes before any other probe.
C3_NotDeployedAfterHeadCheckOnly ==
    /\ (rpc.error = "NotDeployed") =>
          /\ rpc.pc = "failed"
          /\ ~CodeAt(rpc.latest)
          /\ Len(rpc.log) = 2
    /\ (rpc.pc \notin {"getBlockNumber", "head"} /\ rpc.error # "OracleError"
          /\ ~CodeAt(rpc.latest)) =>
          rpc.error = "NotDeployed"
    /\ (Len(rpc.log) >= 1) => rpc.log[1].op = "getBlockNumber"
    /\ (Len(rpc.log) >= 2) =>
          /\ rpc.log[2] = [op |-> "getCode", block |-> rpc.latest,
                           phase |-> "head"]
          /\ \A i \in 3..Len(rpc.log) :
                rpc.log[i].phase \in {"floor", "descent", "binary"}

\* not deployed at the head although the floor block has code
C3_Witness ==
    /\ rpc.error = "NotDeployed"
    /\ rpc.floor > 0
    /\ rpc.floor < rpc.latest
    /\ CodeAt(rpc.floor)

\* C4 (as claimed): for every floor >= 0 with floor <= latest and code at
\* floor and at the head, the search returns floor after exactly one probe
\* beyond the head check and no descent or binary-search probe.
C4_FloorShortcutEveryFloor ==
    (rpc.pc = "done" /\ rpc.floor <= rpc.latest /\ CodeAt(rpc.floor)) =>
        /\ rpc.result = rpc.floor
        /\ Len(rpc.log) = 3
        /\ rpc.log[3] = [op |-> "getCode", block |-> rpc.floor,
                         phase |-> "floor"]

\* C4 (amended): the same for every floor > 0.
C4_FloorShortcutPositiveFloor ==
    (rpc.pc = "done" /\ rpc.floor > 0 /\ rpc.floor <= rpc.latest
        /\ CodeAt(rpc.floor)) =>
        /\ rpc.result = rpc.floor
        /\ Len(rpc.log) = 3
        /\ rpc.log[3] = [op |-> "getCode", block |-> rpc.floor,
                         phase |-> "floor"]

\* the shortcut taken with floor = latest
C4_Witness ==
    /\ rpc.pc = "done"
    /\ rpc.floor > 0
    /\ rpc.floor = rpc.latest
    /\ rpc.result = rpc.floor
    /\ Len(rpc.log) = 3

\* C5 (as claimed): with floor > 0 and code at floor the search returns
\* floor whatever lies below it; with no code at floor it returns the first
\* block above floor that has code.
C5_FloorNotVerified ==
    /\ (rpc.pc = "done" /\ rpc.floor > 0 /\ CodeAt(rpc.floor)) =>
          rpc.result = rpc.floor
    /\ (rpc.pc = "done" /\ ~CodeAt(rpc.floor)) =>
          rpc.result = EarliestCode(rpc.floor + 1, rpc.latest)

\* C5 (amended): the second half holds when floor is below the head and
\* code presence is monotonic between floor and the head.
C5_FloorNotVerifiedMonotonic ==
    /\ (rpc.pc = "done" /\ rpc.floor > 0 /\ CodeAt(rpc.floor)) =>
          rpc.result = rpc.floor
    /\ (rpc.pc = "done" /\ ~CodeAt(rpc.floor) /\ rpc.floor < rpc.latest
          /\ MonotonicBetween(rpc.floor, rpc.latest)) =>
          rpc.result = EarliestCode(rpc.floor + 1, rpc.latest)

\* floor returned although the block below floor already has code
C5_Witness ==
    /\ rpc.pc = "done"
    /\ rpc.floor > 1
    /\ CodeAt(rpc.floor)
    /\ CodeAt(rpc.floor - 1)
    /\ rpc.result = rpc.floor

----------------------------------------------------------------------------
(* Properties of fetchDeploymentBlockX (Spec) *)

\* this step is the entry of a fetchDeploymentBlockX call
Entered == Len(calls') = Len(calls) + 1

\* the call that this step entered
Entrant == calls'[Len(calls')]

\* the text stored for the query of call c under chain id chainId, if
\* localStorage can be read
Readable(chainId, c) ==
    /\ canUseBrowserStorage
    /\ storageFault # "getItem"
    /\ lsKeyForDeploymentBlock(chainId, c.address, c.floor) \in DOMAIN storage

StoredText(chainId, c) ==
    storage[lsKeyForDeploymentBlock(chainId, c.address, c.floor)]

\* localStorage holds no block that call c could read
NothingStoredFor(c) ==
    \A chainId \in {c.chainId, ClientChainId} :
        Readable(chainId, c) =>
            \A V \in 0..(MaxBlock + 3) : StoredText(chainId, c) # toString(V)

Settled(c) == c.status # "pending"

\* call i is the one call made so far in this process for the query of the
\* call now entered, and it has returned
FirstCallOfQuery(i) ==
    /\ calls[i].live
    /\ calls[i].status = "returned"
    /\ calls[i].key = Entrant.key
    /\ \A j \in DOMAIN calls :
          (calls[j].live /\ calls[j].key = Entrant.key) => j = i

\* C6: once a call for a query has returned in this process, a later call
\* for the same (chainId, address, floor) returns at once without any oracle
\* call; the second of two calls in sequence returns the block the first
\* returned, with the store enabled in both and with it disabled in both.
C6_SecondCallServedFromCache ==
    [][Entered =>
          \A i \in DOMAIN calls :
              /\ (calls[i].live /\ calls[i].status = "returned"
                    /\ calls[i].key = Entrant.key) =>
                    /\ Entrant.status = "returned"
                    /\ Entrant.run = Idle
                    /\ \A j \in DOMAIN calls : calls'[j].run = calls[j].run
              /\ (FirstCallOfQuery(i)
                    /\ calls[i].disableLocalStorage
                          = Entrant.disableLocalStorage) =>
                    Entrant.value = calls[i].value]_vars

\* a search, then a second call of the same query served from memory, once
\* with the store disabled in both calls
C6_Witness ==
    /\ Len(calls) >= 2
    /\ calls[1].key = calls[2].key
    /\ calls[1].disableLocalStorage /\ calls[2].disableLocalStorage
    /\ calls[1].source = "search" /\ calls[1].run.pc = "done"
    /\ calls[2].live
    /\ calls[2].source = "memory"
    /\ calls[2].status = "returned"
    /\ calls[2].value = calls[1].value

\* at most one search runs per query, and a call that joined a running
\* fetch shares the outcome of the call that owns it
OneSearchPerQuery ==
    /\ \A i, j \in DOMAIN calls :
          (i # j /\ Running(calls[i].run) /\ Running(calls[j].run)) =>
              calls[i].key # calls[j].key
    /\ \A j \in DOMAIN calls :
          calls[j].source = "join" =>
              /\ calls[j].awaits \in 1..(j - 1)
              /\ calls[calls[j].awaits].key = calls[j].key
              /\ calls[calls[j].awaits].source = "search"
              /\ calls[j].run = Idle
              /\ calls[j].status = calls[calls[j].awaits].status
              /\ calls[j].value = calls[calls[j].awaits].value
              /\ calls[j].error = calls[calls[j].awaits].error

\* C7: a call entered while a search for the same query is running, with
\* nothing cached in memory or readable in localStorage, starts no search of
\* its own: it awaits the running one, and both callers get its result or
\* both its failure.
C7_ConcurrentCallsShareOneSearch ==
    [][/\ OneSearchPerQuery'
       /\ Entered =>
             \A i \in DOMAIN calls :
                 (Running(calls[i].run) /\ calls[i].key = Entrant.key
                     /\ queries[Entrant.key].data = NoBlock
                     /\ NothingStoredFor(Entrant)) =>
                     /\ Entrant.source = "join"
                     /\ Entrant.awaits = i
                     /\ Entrant.status = "pending"]_vars

\* two calls of one query, the second joined the first's search, both
\* returned its block
C7_Witness ==
    /\ Len(calls) >= 2
    /\ calls[2].source = "join"
    /\ calls[2].awaits = 1
    /\ calls[1].run.pc = "done"
    /\ calls[1].status = "returned" /\ calls[2].status = "returned"
    /\ calls[2].value = calls[1].run.result

\* C8: with block V stored under the query's localStorage key and no data
\* in the query cache, a call with the store enabled returns V without any
\* oracle call, and the query cache then holds V.
C8_StoredValueServedWithoutOracle ==
    [][Entered =>
          \A V \in Blocks :
              (/\ ~Entrant.disableLocalStorage
               /\ Entrant.address # EmptyAddress
               /\ queries[Entrant.key].data = NoBlock
               /\ Readable(Entrant.chainId, Entrant)
               /\ StoredText(Entrant.chainId, Entrant) = toString(V)) =>
                  /\ Entrant.status = "returned"
                  /\ Entrant.value = V
                  /\ Entrant.run = Idle
                  /\ \A j \in DOMAIN calls : calls'[j].run = calls[j].run
                  /\ queries'[Entrant.key].data = V]_vars

\* a block found by a search and written to localStorage, the process
\* restarted, and the next call served with that block from the store
C8_Witness ==
    /\ Len(calls) >= 2
    /\ calls[1].source = "search" /\ calls[1].status = "returned"
    /\ calls[1].lsWrites # <<>>
    /\ ~calls[1].live
    /\ calls[2].live
    /\ calls[2].key = calls[1].key
    /\ calls[2].source = "seed"
    /\ calls[2].run = Idle
    /\ calls[2].value = calls[1].value
    /\ queries[calls[2].key].data = calls[2].value

\* C9: a call made with disableLocalStorage = true never reads or writes
\* localStorage: not when it is entered, not when its own search succeeds
\* or fails; it is served from the query cache or by a search.
C9_OptOutNeverTouchesStorage ==
    [][/\ \A i \in DOMAIN calls' :
             calls'[i].disableLocalStorage =>
                 /\ calls'[i].lsReads = <<>>
                 /\ calls'[i].lsWrites = <<>>
                 /\ calls'[i].source \in {"memory", "search", "join"}
       /\ (Entered /\ Entrant.disableLocalStorage) => storage' = storage
       /\ \A i \in DOMAIN calls :
             (calls[i].disableLocalStorage /\ calls'[i].run # calls[i].run) =>
                 storage' = storage]_vars

\* an opted-out call whose search succeeded in a browser whose
\* localStorage works and is still empty
C9_Witness ==
    /\ Len(calls) >= 1
    /\ calls[1].disableLocalStorage
    /\ calls[1].run.pc = "done"
    /\ calls[1].status = "returned"
    /\ canUseBrowserStorage /\ storageFault = "none"
    /\ storage = <<>>

\* the search owned by call i ends in failure in this step
SearchFails(i) ==
    /\ Running(calls[i].run)
    /\ calls'[i].run.pc = "failed"

\* C10: a failing search (not deployed, or an oracle call failing at any
\* probe) puts no data into the query cache (a query none of whose calls
\* has returned is left without data and without a running fetch) and
\* leaves localStorage as it was; the next call of the query, all earlier
\* ones having failed, starts a new search at getBlockNumber.
C10_FailedSearchLeavesNoTrace ==
    [][/\ \A i \in DOMAIN calls :
             SearchFails(i) =>
                 /\ queries'[calls[i].key].data = queries[calls[i].key].data
                 /\ queries'[calls[i].key].fetching = 0
                 /\ (\A j \in DOMAIN calls :
                        (calls[j].live /\ calls[j].key = calls[i].key) =>
                            calls'[j].status # "returned") =>
                       queries'[calls[i].key] = NoQuery
                 /\ storage' = storage
                 /\ calls'[i].status = "threw"
                 /\ calls'[i].lsWrites = <<>>
       /\ Entered =>
             ((/\ \E i \in DOMAIN calls :
                     /\ calls[i].live
                     /\ calls[i].key = Entrant.key
                     /\ calls[i].run.pc = "failed"
               /\ \A i \in DOMAIN calls :
                     (calls[i].live /\ calls[i].key = Entrant.key) =>
                         calls[i].status = "threw"
               /\ NothingStoredFor(Entrant)) =>
                 /\ Entrant.source = "search"
                 /\ Entrant.status = "pending"
                 /\ Entrant.run = StartSearch(Entrant.address,
                                              Entrant.floor))]_vars

\* a search that failed at a probe after the head check, and the next call
\* of the same query searching again from the start
C10_Witness ==
    /\ Len(calls) >= 2
    /\ calls[1].run.pc = "failed"
    /\ calls[1].run.error = "OracleError"
    /\ Len(calls[1].run.log) >= 3
    /\ calls[2].live
    /\ calls[2].key = calls[1].key
    /\ calls[2].source = "search"
    /\ calls[2].run.pc = "done"
    /\ storage = <<>>
    /\ ~calls[2].disableLocalStorage => ~canUseBrowserStorage

\* localStorage fails for the query of call c: the medium is absent, getItem
\* or setItem throws, or the text stored for the query is not a number
StoreFails(c) ==
    \/ ~canUseBrowserStorage
    \/ storageFault # "none"
    \/ \E chainId \in {c.chainId, ClientChainId} :
          Readable(chainId, c) /\ StoredText(chainId, c) = Garbage

\* the search owned by call i ends with a block in this step
SearchSucceeds(i) ==
    /\ Running(calls[i].run)
    /\ calls'[i].run.pc = "done"

\* C11: failures of localStorage never reach the caller.  With the medium
\* absent, getItem throwing or unparsable text stored, the read is a miss:
\* a call that finds nothing in memory starts the search.  With the medium
\* absent or setItem throwing, the write is a no-op.  The search's block is
\* returned and cached in memory, and no call ever fails with anything but
\* a missing address, NotDeployed or an oracle error.
C11_StorageFailuresNeverSurface ==
    [][/\ \A i \in DOMAIN calls' :
             calls'[i].error \in {"none", "AddressRequired", "NotDeployed",
                                  "OracleError"}
       /\ Entered =>
             ((/\ StoreFails(Entrant)
               /\ NothingStoredFor(Entrant)
               /\ ~Entrant.disableLocalStorage
               /\ Entrant.address # EmptyAddress
               /\ queries[Entrant.key] = NoQuery) =>
                 /\ Entrant.status = "pending"
                 /\ Entrant.source = "search"
                 /\ Entrant.run = StartSearch(Entrant.address, Entrant.floor)
                 /\ queries'[Entrant.key].data = NoBlock
                 /\ storage' = storage)
       /\ \A i \in DOMAIN calls :
             (SearchSucceeds(i) /\ StoreFails(calls[i])) =>
                 /\ calls'[i].status = "returned"
                 /\ calls'[i].value = calls'[i].run.result
                 /\ queries'[calls[i].key].data = calls'[i].run.result
                 /\ (~canUseBrowserStorage \/ storageFault = "setItem") =>
                       storage' = storage]_vars

\* a call with the store enabled in a browser whose setItem throws: its
\* search returned a block that is cached in memory and not in localStorage
C11_Witness ==
    /\ Len(calls) >= 1
    /\ ~calls[1].disableLocalStorage
    /\ storageFault = "setItem"
    /\ calls[1].source = "search"
    /\ calls[1].status = "returned"
    /\ calls[1].value = calls[1].run.result
    /\ calls[1].lsWrites # <<>>
    /\ queries[calls[1].key].data = calls[1].value
    /\ storage = <<>>

\* the call entered in this step was rejected for its address before
\* anything else happened: no oracle call, no read or write of either tier
RejectedAtEntry ==
    /\ Entrant.status = "threw"
    /\ Entrant.error = "AddressRequired"
    /\ Entrant.run = Idle
    /\ Entrant.lsReads = <<>>
    /\ Entrant.lsWrites = <<>>
    /\ queries' = queries
    /\ storage' = storage
    /\ \A j \in DOMAIN calls : calls'[j] = calls[j]

\* C12 (as claimed): an empty or malformed address is rejected with an
\* error before any oracle call and before either cache tier is touched.
C12_EmptyOrMalformedAddressRejected ==
    [][(Entered /\ Entrant.address \notin Addresses) => RejectedAtEntry]_vars

\* C12 (amended): an empty address is rejected so; any other text,
\* malformed or not, is never rejected for being no address.
C12_EmptyAddressRejected ==
    [][Entered =>
          /\ Entrant.address = EmptyAddress => RejectedAtEntry
          /\ Entrant.address # EmptyAddress =>
                Entrant.error # "AddressRequired"]_vars

\* an empty address rejected while localStorage holds a block and a search
\* of an earlier call is still running
C12_Witness ==
    /\ Len(calls) >= 2
    /\ Running(calls[1].run)
    /\ calls[2].address = EmptyAddress
    /\ calls[2].status = "threw"
    /\ calls[2].error = "AddressRequired"
    /\ storage # <<>>

\* the oracle call a run was waiting for when it ended, or waits for now
LastCall(s) == s.log[Len(s.log)]

\* C13: when an oracle call of a search rejects (getBlockNumber, or getCode
\* in the head, floor, descent or binary phase), the search ends there: no
\* further oracle call is issued and the rejected one is not repeated (the
\* log stays as it was, then and ever after), and the caller of
\* fetchDeploymentBlockX, like every caller awaiting the same fetch, gets
\* that error.
C13_OracleErrorStopsSearch ==
    [][/\ \A i \in DOMAIN calls :
             QueryOracleError(i) =>
                 /\ calls'[i].run.pc = "failed"
                 /\ calls'[i].run.error = "OracleError"
                 /\ calls'[i].run.log = calls[i].run.log
                 /\ calls'[i].status = "threw"
                 /\ calls'[i].error = "OracleError"
                 /\ \A j \in DOMAIN calls :
                       (calls[j].status = "pending" /\ calls[j].awaits = i) =>
                           /\ calls'[j].status = "threw"
                           /\ calls'[j].error = "OracleError"
       /\ \A i \in DOMAIN calls :
             calls[i].run.pc = "failed" => calls'[i].run = calls[i].run]_vars

\* one search failed at getBlockNumber, another at a binary-search probe,
\* and both callers got the oracle's error
C13_Witness ==
    /\ Len(calls) >= 2
    /\ \A i \in 1..2 :
          /\ calls[i].run.pc = "failed"
          /\ calls[i].status = "threw"
          /\ calls[i].error = "OracleError"
    /\ LastCall(calls[1].run).phase = "getBlockNumber"
    /\ LastCall(calls[2].run).phase = "binary"

\* texts a and b differ, and only in the case of their letters
DifferOnlyInCase(a, b) ==
    /\ a # b
    /\ Len(a) = Len(b)
    /\ \A k \in 1..Len(a) : LowerChar(a[k]) = LowerChar(b[k])

\* C14: two calls for the same chain id and floor whose addresses differ
\* only in letter case have the same query key and the same localStorage
\* key; the later one is served what the earlier one cached, from the query
\* cache in the same process or from localStorage after a restart, without
\* any oracle call.
C14_CaseVariantsShareCache ==
    [][Entered =>
          \A i \in DOMAIN calls :
              (/\ DifferOnlyInCase(calls[i].address, Entrant.address)
               /\ calls[i].chainId = Entrant.chainId
               /\ calls[i].floor = Entrant.floor) =>
                  /\ Entrant.key = calls[i].key
                  /\ lsKeyForDeploymentBlock(Entrant.chainId,
                                             Entrant.address, Entrant.floor)
                        = lsKeyForDeploymentBlock(calls[i].chainId,
                                                  calls[i].address,
                                                  calls[i].floor)
                  /\ (calls[i].live /\ calls[i].status = "returned") =>
                        /\ Entrant.status = "returned"
                        /\ Entrant.run = Idle
                        /\ \A j \in DOMAIN calls :
                              calls'[j].run = calls[j].run
                  /\ (calls[i].live /\ calls[i].status = "returned"
                        /\ calls[i].disableLocalStorage
                              = Entrant.disableLocalStorage) =>
                        Entrant.value = calls[i].value
                  /\ \A V \in Blocks :
                        (/\ ~calls[i].live
                         /\ calls[i].lsWrites # <<>>
                         /\ ~Entrant.disableLocalStorage
                         /\ Readable(calls[i].chainId, calls[i])
                         /\ StoredText(calls[i].chainId, calls[i])
                               = toString(V)) =>
                            /\ Entrant.status = "returned"
                            /\ Entrant.value = V
                            /\ Entrant.run = Idle]_vars

\* a search for the lower-case address, then a call with the upper-case
\* address in the same process returning the same block without a search
C14_Witness ==
    /\ Len(calls) >= 2
    /\ calls[1].address = AddrLower
    /\ calls[2].address = AddrUpper
    /\ calls[1].chainId = calls[2].chainId
    /\ calls[1].floor = calls[2].floor
    /\ calls[1].source = "search"
    /\ calls[1].status = "returned"
    /\ calls[2].live
    /\ calls[2].status = "returned"
    /\ calls[2].run = Idle
    /\ calls[2].value = calls[1].value

\* no block can be read from localStorage under the key that call c's
\* chain id, address and floor give
NothingStoredUnderOwnKey(c) ==
    Readable(c.chainId, c) =>
        \A V \in 0..(MaxBlock + 3) : StoredText(c.chainId, c) # toString(V)

\* C15 (as claimed): the in-memory cache is consulted first; once the query
\* has data in memory, a call returns that data and performs no lookup in
\* the persistent store.
C15_MemoryConsultedFirst ==
    [][Entered =>
          ((Entrant.address # EmptyAddress
              /\ queries[Entrant.key].data # NoBlock) =>
              /\ Entrant.status = "returned"
              /\ Entrant.value = queries[Entrant.key].data
              /\ Entrant.lsReads = <<>>)]_vars

\* C15 (amended): with the store enabled localStorage is read first, on
\* every call, under the key of the call's own chain id; a block found there
\* replaces the data in memory and is returned.  Otherwise data in memory is
\* returned.  The queryFn's own lookup in localStorage happens only when
\* both came up empty.  With the store disabled no lookup is performed.
C15_StoreSeedsMemoryFirst ==
    [][(Entered /\ Entrant.address # EmptyAddress) =>
          /\ Entrant.disableLocalStorage => Entrant.lsReads = <<>>
          /\ ~Entrant.disableLocalStorage =>
                /\ Len(Entrant.lsReads) \in 1..2
                /\ Entrant.lsReads[1] =
                      lsKeyForDeploymentBlock(Entrant.chainId,
                                              Entrant.address, Entrant.floor)
          /\ \A V \in Blocks :
                (/\ ~Entrant.disableLocalStorage
                 /\ Readable(Entrant.chainId, Entrant)
                 /\ StoredText(Entrant.chainId, Entrant) = toString(V)) =>
                    /\ Entrant.status = "returned"
                    /\ Entrant.value = V
                    /\ queries'[Entrant.key].data = V
                    /\ Len(Entrant.lsReads) = 1
          /\ (/\ queries[Entrant.key].data # NoBlock
               /\ (Entrant.disableLocalStorage
                     \/ NothingStoredUnderOwnKey(Entrant))) =>
                    /\ Entrant.status = "returned"
                    /\ Entrant.value = queries[Entrant.key].data
                    /\ queries'[Entrant.key] = queries[Entrant.key]
                    /\ Len(Entrant.lsReads) <= 1
          /\ Len(Entrant.lsReads) = 2 =>
                /\ queries[Entrant.key].data = NoBlock
                /\ NothingStoredUnderOwnKey(Entrant)]_vars

\* a block in memory from a search made with the store disabled, then a
\* call with the store enabled that returns the other block localStorage
\* held and leaves that one in memory
C15_Witness ==
    /\ Len(calls) >= 2
    /\ calls[1].disableLocalStorage
    /\ calls[1].source = "search"
    /\ calls[1].status = "returned"
    /\ calls[2].live
    /\ calls[2].key = calls[1].key
    /\ ~calls[2].disableLocalStorage
    /\ calls[2].source = "seed"
    /\ calls[2].status = "returned"
    /\ calls[2].value # calls[1].value
    /\ queries[calls[2].key].data = calls[2].value

\* C16 (as claimed): when the search of a call with the store enabled (and
\* localStorage working) succeeds, the block is written to localStorage, then
\* to the query cache, then returned: at the return both tiers hold it under
\* the keys of the call's query (chain id, address, floor).
C16_SearchResultInBothTiers ==
    [][\A i \in DOMAIN calls :
          (/\ SearchSucceeds(i)
           /\ ~calls[i].disableLocalStorage
           /\ canUseBrowserStorage
           /\ storageFault = "none") =>
              /\ calls'[i].status = "returned"
              /\ calls'[i].value = calls'[i].run.result
              /\ queries'[calls[i].key].data = calls'[i].value
              /\ calls'[i].lsWrites =
                    <<lsKeyForDeploymentBlock(calls[i].chainId,
                                              calls[i].address,
                                              calls[i].floor)>>
              /\ lsKeyForDeploymentBlock(calls[i].chainId, calls[i].address,
                                         calls[i].floor) \in DOMAIN storage'
              /\ storage'[lsKeyForDeploymentBlock(calls[i].chainId,
                                                  calls[i].address,
                                                  calls[i].floor)]
                    = toString(calls'[i].value)]_vars

\* tuples t and u name the same query: same chain id, same floor, addresses
\* equal up to letter case
SameQuery(t, u) ==
    /\ t[1] = u[1]
    /\ t[3] = u[3]
    /\ t[2] = u[2] \/ DifferOnlyInCase(t[2], u[2])

\* the tuples whose entry in localStorage is under key k
TuplesOfKey(k) ==
    {t \in KeyTuples : lsKeyForDeploymentBlock(t[1], t[2], t[3]) = k}

\* C17: the localStorage key is determined by (chain id, lowercased
\* address, floor) and by nothing else: tuples naming the same query get the
\* same key, tuples differing in chain id, lowercased address or floor get
\* different keys, so every entry written belongs to one query only.
C17_KeyDeterminedByTuple ==
    /\ \A t, u \in KeyTuples :
          lsKeyForDeploymentBlock(t[1], t[2], t[3])
              = lsKeyForDeploymentBlock(u[1], u[2], u[3])
            <=> SameQuery(t, u)
    /\ \A k \in DOMAIN storage :
          /\ TuplesOfKey(k) # {}
          /\ \A t, u \in TuplesOfKey(k) : SameQuery(t, u)

\* every query of KeyTuples has been persisted and has an entry of its own
C17_Witness ==
    /\ \A t \in KeyTuples :
          lsKeyForDeploymentBlock(t[1], t[2], t[3]) \in DOMAIN storage
    /\ Cardinality(DOMAIN storage)
          = Cardinality({<<t[1], ToLowerCase(t[2]), t[3]>> : t \in KeyTuples})

\* the localStorage key of the query of call c
OwnLsKey(c) == lsKeyForDeploymentBlock(c.chainId, c.address, c.floor)

\* C18 (as claimed): a call touches the entries of its own query only.  It
\* reads and writes localStorage under its own query's key alone, awaits
\* only a fetch of its own query, and neither its entry nor any step of its
\* search changes the cached state of another query, another query's entry
\* in localStorage, or a call of another query.
C18_DistinctQueriesIndependent ==
    [][/\ \A i \in DOMAIN calls' :
             /\ \A n \in DOMAIN calls'[i].lsReads :
                   calls'[i].lsReads[n] = OwnLsKey(calls'[i])
             /\ \A n \in DOMAIN calls'[i].lsWrites :
                   calls'[i].lsWrites[n] = OwnLsKey(calls'[i])
             /\ calls'[i].source = "join" =>
                   calls'[calls'[i].awaits].key = calls'[i].key
       /\ Entered =>
             /\ \A k \in QueryKeys :
                   k # Entrant.key => queries'[k] = queries[k]
             /\ storage' = storage
       /\ \A i \in DOMAIN calls :
             calls'[i].run # calls[i].run =>
                 /\ \A k \in QueryKeys :
                       k # calls[i].key => queries'[k] = queries[k]
                 /\ \A k \in DOMAIN storage' :
                       (k \notin DOMAIN storage \/ storage'[k] # storage[k])
                           => k = OwnLsKey(calls[i])
                 /\ \A j \in DOMAIN calls :
                       calls[j].key # calls[i].key =>
                           calls'[j] = calls[j]]_vars

\* C19 (as claimed): on a chain where the contract, once deployed, keeps its
\* code up to the head, two successful searches for the same address and
\* floor return the same block, also when the head advanced between them.
C19_RepeatedSearchSameBlock ==
    (rpc.pc = "done"
        /\ \E D \in 0..rpc.latest : DeployedAt(D, rpc.latest)) =>
        \A i \in DOMAIN calls : calls[i].result = rpc.result

----------------------------------------------------------------------------
(* Properties of useHandleTransactionMutationX (TxSpec) *)

InvalidationEvents ==
    {"invalidatePredicate", "invalidateMany", "invalidateFallback"}

SuccessEvents == {"onSuccess", "onSuccessAsync", "return"}

\* where in the transaction's events one of E occurs
PositionsOf(E) == {i \in 1..Len(tx.events) : tx.events[i] \in E}

\* C20: when onSettled runs without a submit error and without
\* disableWaitingForReceipt, the first thing it does is await the receipt.
\* Invalidation, onSuccess, onSuccessAsync and the return of the tx hash
\* occur only after a receipt with status success, every invalidation
\* before onSuccess; a receipt with another status is followed by onError,
\* with no query invalidated and no onSuccess, and undefined is returned
\* (unless the onError callback itself throws).
C20_ReceiptAwaitedFirst ==
    (/\ tx.pc \notin {"idle", "mutating"}
     /\ ~tx.settings.disableWaitingForReceipt
     /\ tx.error # SubmitError) =>
        /\ tx.events[1] = "waitForTransactionReceipt"
        /\ \A i \in PositionsOf(InvalidationEvents \cup SuccessEvents) :
              /\ tx.receipt = "success"
              /\ \E j \in 1..(i - 1) : tx.events[j] = "receipt"
        /\ \A i \in PositionsOf(InvalidationEvents) :
              \A j \in PositionsOf(SuccessEvents) : i < j
        /\ tx.receipt = "success" => PositionsOf({"onSuccess"}) # {}
        /\ tx.invalidated # {} => tx.receipt = "success"
        /\ tx.result = TxHash => tx.receipt = "success"
        /\ tx.receipt \notin {"none", "success"} =>
              /\ PositionsOf(InvalidationEvents \cup SuccessEvents) = {}
              /\ tx.invalidated = {}
              /\ tx.error = RevertedError
              /\ \E i \in PositionsOf({"receipt"}) :
                    \E j \in PositionsOf({"onError"}) : i < j
              /\ ~tx.thrown => tx.result \in {"none", Undefined}

\* a transaction settled after its receipt reported success: receipt,
\* fallback invalidation, onSuccess, return of the hash, in this order
C20_Witness ==
    /\ tx.pc = "done"
    /\ tx.receipt = "success"
    /\ tx.result = TxHash
    /\ tx.invalidated # {}
    /\ tx.events = <<"waitForTransactionReceipt", "receipt",
                     "invalidateFallback", "onSuccess", "onSuccessAsync",
                     "return", "onSettled", "onSettledAsync">>

----------------------------------------------------------------------------
(* Further properties of the search (SearchSpec) *)

\* the oracle calls of the run that have been answered
Answered(s) ==
    IF s.pc \in {"done", "idle"} THEN 1..Len(s.log) ELSE 1..(Len(s.log) - 1)

\* the oracle has answered a getCode for block b with the given presence
Confirmed(b, present) ==
    /\ CodeAt(b) = present
    /\ \E i \in Answered(rpc) :
          rpc.log[i].op = "getCode" /\ rpc.log[i].block = b

\* the run is suspended at a probe of the descent or of the binary search
InLoops == rpc.pc \in {"descent", "binary"}

\* C21 (as claimed): at every point of the descent and of the binary
\* search, for every floor, lo has been confirmed by the oracle to have no
\* code and hi to have code.
C21_BoundsConfirmed ==
    InLoops => Confirmed(rpc.lo, FALSE) /\ Confirmed(rpc.hi, TRUE)

\* C21 (amended): hi has always been confirmed to have code; lo has been
\* confirmed to have no code, except that with floor = 0 the initial lo = 0
\* is assumed and has not been probed.
C21_BoundsConfirmedOrAssumed ==
    InLoops =>
        /\ Confirmed(rpc.hi, TRUE)
        /\ \/ Confirmed(rpc.lo, FALSE)
           \/ /\ rpc.floor = 0
              /\ rpc.lo = 0
              /\ \A i \in 1..Len(rpc.log) : rpc.log[i].block # 0
                                              \/ rpc.log[i].op # "getCode"

\* a binary-search probe pending with floor > 0, both bounds moved by the
\* descent away from floor and latest
C21_Witness ==
    /\ rpc.pc = "binary"
    /\ rpc.floor > 0
    /\ rpc.lo > rpc.floor
    /\ rpc.hi < rpc.latest
    /\ Confirmed(rpc.lo, FALSE)
    /\ Confirmed(rpc.hi, TRUE)

RECURSIVE Log2(_)
\* floor of the binary logarithm of n >= 1
Log2(n) == IF n <= 1 THEN 0 ELSE 1 + Log2(n \div 2)

\* number of getCode calls issued so far in the given phases
ProbeCount(s, phases) ==
    Cardinality({i \in 1..Len(s.log) :
                    s.log[i].op = "getCode" /\ s.log[i].phase \in phases})

\* C22: with monotonic code presence from D on, no code at floor and
\* floor < D <= latest, the descent and the binary search together issue at
\* most 2*floor(log2(latest - D + 1)) + 1 probes, and the search at most two
\* more getCode calls (head and floor checks); the bound does not mention
\* the floor.
C22_LogarithmicProbeBound ==
    \A D \in 1..MaxBlock :
        (/\ rpc.pc \notin {"idle", "getBlockNumber"}
         /\ rpc.floor < D
         /\ D <= rpc.latest
         /\ DeployedAt(D, rpc.latest)) =>
            /\ ProbeCount(rpc, {"descent", "binary"})
                   <= 2 * Log2(rpc.latest - D + 1) + 1
            /\ ProbeCount(rpc, {"head", "floor", "descent", "binary"})
                   <= 2 * Log2(rpc.latest - D + 1) + 3

\* a completed search that used the whole budget, far above its floor
C22_Witness ==
    /\ rpc.pc = "done"
    /\ rpc.floor > 0
    /\ rpc.latest - rpc.result >= 1
    /\ rpc.result - rpc.floor >= 3
    /\ DeployedAt(rpc.result, rpc.latest)
    /\ ProbeCount(rpc, {"descent", "binary"})
           = 2 * Log2(rpc.latest - rpc.result + 1) + 1
    /\ Len(rpc.log) = 2 * Log2(rpc.latest - rpc.result + 1) + 4

\* the step is the continuation after an answered probe of the given phase
AnsweredIn(phase) ==
    /\ rpc.pc = phase
    /\ rpc' # rpc
    /\ rpc'.error # "OracleError"

\* C23: whatever the floor, the head and the oracle's answers, a started
\* search eventually completes with a block or a failure; each descent
\* iteration lowers hi or breaks into the binary search, each binary-search
\* iteration shrinks hi - lo, and with floor < latest the loops end with
\* lo + 1 = hi.
C23_SearchTerminates ==
    /\ <>(rpc.pc \in {"done", "failed"})
    /\ [][AnsweredIn("descent") =>
              \/ rpc'.hi < rpc.hi /\ rpc'.lo = rpc.lo
              \/ /\ rpc'.lo = rpc.probe
                 /\ rpc'.hi = rpc.hi
                 /\ rpc'.pc \in {"binary", "done"}]_vars
    /\ [][AnsweredIn("binary") =>
              /\ rpc'.hi - rpc'.lo < rpc.hi - rpc.lo
              /\ rpc'.hi - rpc'.lo >= 1]_vars
    /\ []((/\ rpc.pc = "done"
           /\ rpc.floor < rpc.latest
           /\ "floor" \in PhasesOf(rpc) => ~CodeAt(rpc.floor)) =>
              rpc.lo + 1 = rpc.hi /\ rpc.result = rpc.hi)

\* a search over a history that is not monotonic has gone through both
\* loops and returned
C23_Witness ==
    /\ rpc.pc = "done"
    /\ {"descent", "binary"} \subseteq PhasesOf(rpc)
    /\ ~MonotonicBetween(rpc.floor, rpc.latest)
    /\ rpc.lo + 1 = rpc.hi

----------------------------------------------------------------------------
(* Further properties of useHandleTransactionMutationX (TxSpec) *)

\* the queries created with queryConfig.metaDataQuery
MetaDataQueries ==
    {q \in CachedQueries : MetaOf(q).queryType = "metaDataQuery"}

\* C24: the automatic fallback invalidation after a successful transaction
\* invalidates every query except those created with
\* queryConfig.metaDataQuery, so the cached deployment block stays valid
\* (and a later fetch of it needs no oracle call).
C24_FallbackSparesMetaData ==
    PositionsOf({"invalidateFallback"}) # {} =>
        /\ tx.invalidated = CachedQueries \ MetaDataQueries
        /\ "deploymentBlock" \notin tx.invalidated

\* how often the event occurs in the transaction's events
Occurrences(e) == Cardinality(PositionsOf({e}))

\* the run of onSettled went through its catch block
FailingPath == Occurrences("onError") > 0

\* C25: onMutate sets isPending and clears errorMessage; every run of
\* onSettled ends with isPending false and settings.onSettled invoked
\* exactly once, also when onSuccess or onError throws; errorMessage is set
\* exactly on the runs that went through the catch block.
C25_PendingLifecycle ==
    /\ tx.pc = "mutating" => tx.isPending /\ tx.errorMessage = Undefined
    /\ tx.pc \in {"waitForTransactionReceipt", "onSuccessAsync",
                   "onErrorAsync"} =>
            tx.isPending /\ Occurrences("onSettled") = 0
    /\ tx.pc \in {"onSettledAsync", "done"} =>
            /\ ~tx.isPending
            /\ Occurrences("onSettled") = 1
            /\ tx.events[Len(tx.events) - 1] = "onSettled"
            /\ FailingPath <=> tx.errorMessage # Undefined
            /\ FailingPath <=>
                   \/ tx.error \in {SubmitError, RevertedError,
                                    ReceiptTimeoutError}
                   \/ tx.settings.onSuccessThrows /\ tx.error = CallbackError

\* onSettled has finished after the onError callback threw on a reverted
\* receipt
C25_Witness ==
    /\ tx.pc = "done"
    /\ tx.thrown
    /\ tx.error = RevertedError
    /\ ~tx.isPending
    /\ tx.errorMessage = "Execution reverted."
    /\ Occurrences("onSettled") = 1

\* C26: whenever floor < latest, the loops keep floor <= lo < hi <= latest
\* and probe strictly between lo and hi; no getCode is issued below floor or
\* above latest, and the only probes at the bounds are the head check at
\* latest and the floor check at floor (made only when floor > 0).
C26_ProbeRange ==
    (rpc.pc \notin {"idle", "getBlockNumber"} /\ rpc.floor < rpc.latest) =>
        /\ InLoops =>
              /\ rpc.floor <= rpc.lo
              /\ rpc.lo < rpc.hi
              /\ rpc.hi <= rpc.latest
              /\ rpc.lo < rpc.probe
              /\ rpc.probe < rpc.hi
        /\ \A i \in 1..Len(rpc.log) :
              rpc.log[i].op = "getCode" =>
                 LET b == rpc.log[i].block
                     phase == rpc.log[i].phase
                 IN  /\ rpc.floor <= b
                     /\ b <= rpc.latest
                     /\ phase = "head" <=> i = 2
                     /\ phase = "head" => b = rpc.latest
                     /\ phase = "floor" =>
                            b = rpc.floor /\ rpc.floor > 0 /\ i = 3
                     /\ phase \in {"descent", "binary"} =>
                            rpc.floor < b /\ b < rpc.latest
                     /\ (rpc.floor > 0 /\ Len(rpc.log) >= 3 /\ i = 3) =>
                            phase = "floor"

\* a binary-search probe pending next to the floor, after a descent probe
\* next to the head
C26_Witness ==
    /\ rpc.pc = "binary"
    /\ rpc.floor > 0
    /\ rpc.probe = rpc.floor + 1
    /\ \E i \in 1..Len(rpc.log) :
          rpc.log[i].phase = "descent" /\ rpc.log[i].block = rpc.latest - 1

\* C27: for any code history with code at the head and floor < latest, the
\* returned block B was observed with code, and B - 1 was observed without
\* code whenever floor > 0 or B - 1 > floor.
C27_LocalBoundary ==
    (rpc.pc = "done" /\ rpc.floor < rpc.latest) =>
        LET B == rpc.result
        IN  /\ Confirmed(B, TRUE)
            /\ (rpc.floor > 0 \/ B - 1 > rpc.floor) =>
                   Confirmed(B - 1, FALSE)

\* C27 (amended): as above, except that a search that returns the floor
\* itself (floor > 0 with code) has observed nothing about floor - 1.
C27_LocalBoundaryAboveFloor ==
    (rpc.pc = "done" /\ rpc.floor < rpc.latest) =>
        LET B == rpc.result
        IN  /\ Confirmed(B, TRUE)
            /\ B >= rpc.floor
            /\ (B > rpc.floor /\ (rpc.floor > 0 \/ B - 1 > rpc.floor)) =>
                   Confirmed(B - 1, FALSE)
            /\ (B = rpc.floor /\ rpc.floor > 0) =>
                   \A i \in 1..Len(rpc.log) : rpc.log[i].block # B - 1
                                                \/ rpc.log[i].op # "getCode"

\* a search over a history with a gap returned a block that is not the
\* earliest one with code
C27_Witness ==
    /\ rpc.pc = "done"
    /\ rpc.floor < rpc.latest
    /\ ~MonotonicBetween(rpc.floor, rpc.latest)
    /\ rpc.result # EarliestCode(rpc.floor, rpc.latest)
    /\ Confirmed(rpc.result - 1, FALSE)

\* C28: every successful search returns a block B with
\* floor <= B <= latest, for every floor, including a floor above the
\* chain head.
C28_ResultInRange ==
    rpc.pc = "done" => rpc.floor <= rpc.result /\ rpc.result <= rpc.latest

----------------------------------------------------------------------------
(* Further properties of fetchDeploymentBlockX (Spec) *)

\* the chain whose node answers the oracle calls of a search: the wagmi
\* client's own chain
SearchChainId == ClientChainId

\* C29: for every call, also one that passes options.chainId, the chain id
\* of the query key and of the localStorage key pre-read for seeding is the
\* chain id of the localStorage key that the query function reads and
\* writes and the chain the search runs against; no result of one chain is
\* cached under another chain's key.
C29_ChainIdConsistent ==
    \A i \in DOMAIN calls :
        LET c == calls[i]
        IN  /\ c.key[2] = c.chainId
            /\ \A n \in DOMAIN c.lsReads : c.lsReads[n] = OwnLsKey(c)
            /\ \A n \in DOMAIN c.lsWrites : c.lsWrites[n] = OwnLsKey(c)
            /\ c.run.pc # "idle" => c.chainId = SearchChainId
            /\ (c.status = "returned" /\ c.run.pc = "done") =>
                   /\ queries[c.key].data = c.value
                   /\ c.key[2] = SearchChainId

\* call i returns in this step, having the store enabled and available
ReturnsWithStore(i) ==
    /\ i \in DOMAIN calls => calls[i].status = "pending"
    /\ calls'[i].status = "returned"
    /\ ~calls'[i].disableLocalStorage
    /\ canUseBrowserStorage
    /\ storageFault = "none"

\* after the step localStorage holds the value of call c under c's own key
StoreHoldsValueOf(c) ==
    /\ OwnLsKey(c) \in DOMAIN storage'
    /\ storage'[OwnLsKey(c)] = toString(c.value)

\* C30 (as claimed): every call that returns with the store enabled and
\* available leaves localStorage holding the returned block under its
\* query's key, whatever served the value.
C30_StoreHoldsReturnedBlock ==
    [][\A i \in DOMAIN calls' :
          ReturnsWithStore(i) => StoreHoldsValueOf(calls'[i])]_vars

\* C30 (amended): among the calls on the client's own chain that return with
\* the store enabled and available, those served by localStorage or by
\* their own search leave the block in localStorage under the query's key;
\* a call served from memory writes nothing, and a call that joined a
\* running fetch finds the block written when the call that started the
\* search had the store enabled, and nothing written otherwise.
C30_StoreHoldsOwnDiscovery ==
    [][\A i \in DOMAIN calls' :
          (ReturnsWithStore(i) /\ calls'[i].chainId = ClientChainId) =>
             LET c == calls'[i]
             IN  /\ c.source \in {"seed", "store", "search"} =>
                        StoreHoldsValueOf(c)
                 /\ c.source = "search" =>
                        c.lsWrites = <<OwnLsKey(c)>>
                 /\ c.source \in {"seed", "store", "memory", "join"} =>
                        c.lsWrites = <<>>
                 /\ c.source = "memory" => storage' = storage
                 /\ c.source = "join" =>
                        IF calls[c.awaits].disableLocalStorage
                        THEN storage' = storage
                        ELSE StoreHoldsValueOf(c)]_vars

\* a call with the store enabled has returned the block that a search of an
\* earlier call with the store disabled left in memory, and localStorage
\* holds nothing under the query's key
C30_Witness ==
    /\ Len(calls) = 2
    /\ calls[1].disableLocalStorage
    /\ calls[1].source = "search"
    /\ calls[2].status = "returned"
    /\ calls[2].source = "memory"
    /\ calls[2].value = calls[1].value
    /\ ~calls[2].disableLocalStorage
    /\ canUseBrowserStorage
    /\ storageFault = "none"
    /\ OwnLsKey(calls[2]) \notin DOMAIN storage

====
